---- MODULE Spec2Model ----
(***************************************************************************)
(* Model of backend/src/agent.py: the coffee-order voice agent.            *)
(*                                                                         *)
(* One job process runs entrypoint(): it builds an AgentSession, registers *)
(* the metrics handler and the log_usage shutdown callback, starts the     *)
(* session and connects.  The session then takes turns with the customer;  *)
(* the language model may request the save_order tool, whose body appends  *)
(* one JSON line to orders.json.                                           *)
(*                                                                         *)
(* The language model, the customer, the file system and the job runtime   *)
(* are the environment: what they do is chosen nondeterministically.       *)
(* The prompt (lines 31-49) tells the language model what it should do; no *)
(* line of agent.py checks that it does, so a tool request may arrive in   *)
(* any generation step.                                                    *)
(***************************************************************************)
EXTENDS Naturals, Sequences, FiniteSets

(* ---------------------------------------------------------------- bounds *)
MaxSaves == 2        \* save_order invocations explored in one session
MaxMetrics == 2      \* metric events the providers emit in one session
ChunkLen == 3        \* tokens of a record one write(2) call carries

(* ------------------------------------------------------------ order data *)
\* An optional value: << >> when absent, <<v>> when present.
Unset == << >>
Some(v) == <<v>>
The(x) == x[1]
NL == [k |-> "\n", v |-> ""]

Keys == <<"drinkType", "size", "milk", "extras", "name">>
Fields == {Keys[i] : i \in 1..Len(Keys)}

\* What the customer can say in one utterance: the drink with its size and
\* milk, the extras (none, or two of them), the name.
Utterances ==
    { [drinkType |-> "Latte", size |-> "Medium", milk |-> "Oat"],
      [extras |-> << >>],
      [extras |-> <<"Vanilla syrup", "extra shot">>],
      [name |-> "Sam"] }

EmptyDraft == [f \in Fields |-> Unset]

IsSet(d, f) == d[f] # Unset
AllKnown(d) == \A f \in Fields : IsSet(d, f)

\* The arguments of a tool request: the order state the language model
\* holds; a detail it does not know is passed as the empty value of the
\* parameter's type (str -> "", List[str] -> []).
ToolArgs(d) ==
    [f \in Fields |-> IF IsSet(d, f) THEN The(d[f])
                      ELSE IF f = "extras" THEN << >> ELSE ""]

\* A slip in the dict literal: size and milk filed under each other's key.
OrderDataSwapped(drink_type, size, milk, extras, name) ==
    [drinkType |-> drink_type, size |-> milk, milk |-> size,
     extras |-> extras, name |-> name]

\* save_order lines 65-71: the dict built from the five parameters.
OrderData(drink_type, size, milk, extras, name) ==
    [drinkType |-> drink_type, size |-> size, milk |-> milk,
     extras |-> extras, name |-> name]

\* json.dumps(order_data): the members in the dict's insertion order.
JsonDumps(o) == [i \in 1..Len(Keys) |-> [k |-> Keys[i], v |-> o[Keys[i]]]]

\* line 78: the text handed to f.write.
RecordLine(o) == JsonDumps(o) \o <<NL>>

\* json.loads of one line of the log: the order it holds, or Malformed when
\* the line is not one complete object with the five members.
Malformed == << >>
JsonLoads(line) ==
    IF /\ Len(line) = Len(Keys)
       /\ {line[i].k : i \in 1..Len(line)} = Fields
    THEN Some([f \in Fields |-> (line[CHOOSE i \in 1..Len(line) : line[i].k = f]).v])
    ELSE Malformed

\* The newline-terminated lines of the log text, in order.
RECURSIVE SplitLines(_, _)
SplitLines(text, cur) ==
    IF text = << >> THEN << >>
    ELSE IF Head(text).k = NL.k
         THEN <<cur>> \o SplitLines(Tail(text), << >>)
         ELSE SplitLines(Tail(text), Append(cur, Head(text)))

\* What follows the last newline of the log text.
RECURSIVE Remainder(_, _)
Remainder(text, cur) ==
    IF text = << >> THEN cur
    ELSE IF Head(text).k = NL.k
         THEN Remainder(Tail(text), << >>)
         ELSE Remainder(Tail(text), Append(cur, Head(text)))

Records(text) ==
    LET ls == SplitLines(text, << >>) IN [i \in 1..Len(ls) |-> JsonLoads(ls[i])]

IsPrefix(s, t) == Len(s) <= Len(t) /\ SubSeq(t, 1, Len(s)) = s

(* ------------------------------------------------------- status strings *)
Success == "Order saved successfully. You may now ask if the user wants another drink."
TechError == "There was a technical error saving the order."
Raised == "<exception>"
NoResult == "<none>"
Cancelled == "<cancelled>"

(* ----------------------------------------------------------------- state *)
VARIABLES
    pc,          \* where entrypoint() stands
    handler,     \* TRUE once _on_metrics_collected is subscribed
    callbacks,   \* the job's shutdown callbacks, in registration order
    job,         \* "running", "shutting_down" or "exited"
    sess,        \* the AgentSession: "none", "new", "running", "closing", "closed", "failed"
    usage,       \* events accumulated by usage_collector
    emitted,     \* metric events emitted by the providers
    logged,      \* the summaries log_usage has logged
    turn,        \* the turn loop: "idle", "listening", "generating", "tool", "speaking", "closed"
    dlg,         \* the dialogue: "none", "summarized", "affirmed", "offered"
    draft,       \* the order state the conversation has filled so far
    tpc,         \* save_order: "idle", "scheduled", "opened", "returned"
    order_data,  \* save_order's dict
    wpos,        \* tokens of the record line already written
    result,      \* what save_order returned
    confirmedCall, \* TRUE when the running tool request followed an affirmed read-back
    file,        \* the text of orders.json
    saves,       \* save_order invocations so far
    sinceSave,   \* TRUE from the successful save of a confirmed order until the order state starts fresh
    opc,         \* save_order of another session's process: "idle", "opened", "returned"
    opos         \* tokens of its record line already written

vars == <<pc, handler, callbacks, job, sess, usage, emitted, logged,
          turn, dlg, draft, tpc, order_data, wpos, result, confirmedCall,
          file, saves, sinceSave, opc, opos>>

lifeVars == <<pc, handler, callbacks, job, sess>>
metricVars == <<usage, emitted, logged>>
toolVars == <<tpc, order_data, wpos, result, confirmedCall, saves>>
otherVars == <<opc, opos>>

NoOrder == OrderData("", "", "", << >>, "")

Init ==
    /\ pc = "new_session"
    /\ handler = FALSE
    /\ callbacks = << >>
    /\ job = "running"
    /\ sess = "none"
    /\ usage = 0
    /\ emitted = 0
    /\ logged = << >>
    /\ turn = "idle"
    /\ dlg = "none"
    /\ draft = EmptyDraft
    /\ tpc = "idle"
    /\ order_data = NoOrder
    /\ wpos = 0
    /\ result = NoResult
    /\ confirmedCall = FALSE
    /\ file = << >>
    /\ saves = 0
    /\ sinceSave = FALSE
    /\ opc = "idle"
    /\ opos = 0

\* save_order has no await between lines 65 and 82: once its body runs, no
\* other callback of the event loop runs until it returns.
InBody == tpc = "opened"

Alive == job # "exited" /\ ~InBody

\* A tool task that is cancelled or dropped leaves nothing behind but what
\* it already wrote.
DropTool ==
    /\ tpc' = "idle"
    /\ order_data' = NoOrder
    /\ wpos' = 0
    /\ result' = IF tpc \in {"scheduled", "opened", "returned"} THEN Cancelled ELSE NoResult
    /\ confirmedCall' = FALSE

(* ------------------------------------------------------------ entrypoint *)
\* lines 96-110: the AgentSession is built.
NewSession ==
    /\ pc = "new_session" /\ job = "running"
    /\ sess' = "new"
    /\ pc' = "on_metrics"
    /\ UNCHANGED <<handler, callbacks, job, usage, emitted, logged,
                   turn, dlg, draft, file>>
    /\ UNCHANGED toolVars
    /\ UNCHANGED sinceSave
    /\ UNCHANGED otherVars

\* The collector built and the handler left unsubscribed before the start.
OnMetricsNotSubscribed ==
    /\ pc = "on_metrics"
    /\ handler' = handler
    /\ pc' = "add_shutdown"
    /\ UNCHANGED <<callbacks, job, sess, usage, emitted, logged,
                   turn, dlg, draft, file>>
    /\ UNCHANGED toolVars
    /\ UNCHANGED sinceSave
    /\ UNCHANGED otherVars

\* lines 113-118: the collector is built and the handler subscribed.
OnMetricsCollected ==
    /\ pc = "on_metrics"
    /\ handler' = TRUE
    /\ pc' = "add_shutdown"
    /\ UNCHANGED <<callbacks, job, sess, usage, emitted, logged,
                   turn, dlg, draft, file>>
    /\ UNCHANGED toolVars
    /\ UNCHANGED sinceSave
    /\ UNCHANGED otherVars

\* The callback registered a second time (once more after the first).
AddShutdownCallbackTwice ==
    /\ pc = "add_shutdown"
    /\ callbacks' = callbacks \o <<"log_usage", "log_usage">>
    /\ pc' = "start"
    /\ UNCHANGED <<handler, job, sess, usage, emitted, logged,
                   turn, dlg, draft, file>>
    /\ UNCHANGED toolVars
    /\ UNCHANGED sinceSave
    /\ UNCHANGED otherVars

\* line 124: log_usage becomes a shutdown callback of the job.
AddShutdownCallback ==
    /\ pc = "add_shutdown"
    /\ callbacks' = Append(callbacks, "log_usage")
    /\ pc' = "start"
    /\ UNCHANGED <<handler, job, sess, usage, emitted, logged,
                   turn, dlg, draft, file>>
    /\ UNCHANGED toolVars
    /\ UNCHANGED sinceSave
    /\ UNCHANGED otherVars

\* lines 127-133: await session.start(...).  A started session closes itself
\* when the job shuts down (its close is a shutdown callback registered
\* after log_usage); a start that fails raises out of entrypoint.
SessionStart ==
    /\ pc = "start" /\ job = "running"
    /\ \/ /\ sess' = "running"
          /\ callbacks' = Append(callbacks, "aclose")
          /\ pc' = "connect"
       \/ /\ sess' = "failed"
          /\ callbacks' = callbacks
          /\ pc' = "raised"
    /\ UNCHANGED <<handler, job, usage, emitted, logged,
                   turn, dlg, draft, file>>
    /\ UNCHANGED toolVars
    /\ UNCHANGED sinceSave
    /\ UNCHANGED otherVars

\* line 136: await ctx.connect().  Audio flows once the room is joined.
Connect ==
    /\ pc = "connect" /\ job = "running"
    /\ \/ /\ pc' = "returned"
          /\ turn' = IF sess = "running" THEN "listening" ELSE turn
       \/ /\ pc' = "raised"
          /\ turn' = turn
    /\ UNCHANGED <<handler, callbacks, job, sess, usage, emitted, logged,
                   dlg, draft, file>>
    /\ UNCHANGED toolVars
    /\ UNCHANGED sinceSave
    /\ UNCHANGED otherVars

(* --------------------------------------------------------------- metrics *)
\* The handler logging the measurement without collecting it.
MetricsLoggedOnly ==
    /\ Alive
    /\ sess \in {"running", "closing"}
    /\ emitted < MaxMetrics
    /\ emitted' = emitted + 1
    /\ usage' = usage
    /\ UNCHANGED <<logged, turn, dlg, draft, file>>
    /\ UNCHANGED lifeVars
    /\ UNCHANGED toolVars
    /\ UNCHANGED sinceSave
    /\ UNCHANGED otherVars

\* lines 115-118: a provider stage of the session reports a measurement; the
\* subscribed handler adds it to the collector.
MetricsCollected ==
    /\ Alive
    /\ sess \in {"running", "closing"}
    /\ emitted < MaxMetrics
    /\ emitted' = emitted + 1
    /\ usage' = IF handler THEN usage + 1 ELSE usage
    /\ UNCHANGED <<logged, turn, dlg, draft, file>>
    /\ UNCHANGED lifeVars
    /\ UNCHANGED toolVars
    /\ UNCHANGED sinceSave
    /\ UNCHANGED otherVars

\* The summary computed and not logged.
LogUsageSilent(lg) == lg

\* lines 120-122: log_usage computes the summary from the collector and logs
\* it.  It has no await: it runs in one piece.
LogUsage(lg) == Append(lg, usage)

(* -------------------------------------------------------------- shutdown *)
\* What the callbacks registered so far log when they run in order.
RECURSIVE LoggedBy(_, _)
LoggedBy(cbs, lg) ==
    IF cbs = << >> THEN lg
    ELSE LoggedBy(Tail(cbs), IF Head(cbs) = "log_usage" THEN LogUsage(lg) ELSE lg)

HasCallback(name) == \E i \in 1..Len(callbacks) : callbacks[i] = name

\* The job shuts down (room closed, worker terminated) and the runtime
\* starts the registered callbacks in registration order: log_usage (line
\* 124) runs to its end, then the close of a started session (registered by
\* line 127) begins.  entrypoint has no await before line 127, so this
\* cannot happen before log_usage is registered.  A closing session takes no
\* more audio: an open turn and the reply generated ahead of it are dropped.
JobShutdown ==
    /\ job = "running" /\ ~InBody
    /\ pc \in {"start", "connect", "returned", "raised"}
    /\ job' = "shutting_down"
    /\ logged' = LoggedBy(callbacks, logged)
    /\ sess' = IF HasCallback("aclose") /\ sess = "running" THEN "closing" ELSE sess
    /\ turn' = IF turn \in {"preempting", "resumed"} THEN "listening" ELSE turn
    /\ UNCHANGED <<pc, handler, callbacks, usage, emitted,
                   dlg, draft, file>>
    /\ UNCHANGED toolVars
    /\ UNCHANGED sinceSave
    /\ UNCHANGED otherVars

\* The session is gone: so are its turn, its dialogue position and its tool
\* task.  What the conversation collected and what was written stay.
EndSession ==
    /\ sess' = "closed"
    /\ turn' = "closed"
    /\ dlg' = "none"
    /\ sinceSave' = FALSE
    /\ tpc' = "idle"
    /\ order_data' = NoOrder
    /\ wpos' = 0
    /\ result' = NoResult
    /\ confirmedCall' = FALSE

\* The closing session has drained: whatever was still in flight is dropped.
SessionClosed ==
    /\ Alive
    /\ sess = "closing"
    /\ EndSession
    /\ UNCHANGED <<pc, handler, callbacks, job, draft, file, saves>>
    /\ UNCHANGED metricVars
    /\ UNCHANGED otherVars

\* The customer leaves the room: the session closes on its own.
ParticipantDisconnected ==
    /\ Alive
    /\ sess = "running" /\ turn # "idle"
    /\ EndSession
    /\ UNCHANGED <<pc, handler, callbacks, job, draft, file, saves>>
    /\ UNCHANGED metricVars
    /\ UNCHANGED otherVars

\* All callbacks have run and the session's close has finished.
ExitReady == job = "shutting_down" /\ sess # "closing"

\* The job process exits.
ProcessExit ==
    /\ ExitReady /\ ~InBody
    /\ job' = "exited"
    /\ UNCHANGED <<pc, handler, callbacks, sess, turn, dlg, draft, file>>
    /\ UNCHANGED metricVars
    /\ UNCHANGED toolVars
    /\ UNCHANGED sinceSave
    /\ UNCHANGED otherVars

(* -------------------------------------------------------------- dialogue *)
\* A running session takes utterances and generates replies; a closing one
\* only finishes the tool call and the speech it has in flight.
Listening == Alive /\ sess = "running" /\ turn = "listening"

\* A reply released while the turn is still open.
ReleasedEarly(t) == t \in {"generating", "preempting"}

\* line 109, preemptive_generation=True: the reply to an utterance is
\* generated while the end of the turn is still open, and it is held back:
\* speech is played and tools are run for a confirmed turn only.
Released(t) == t = "generating"

Generating == Alive /\ sess = "running" /\ Released(turn)

\* The customer has said something and has stopped speaking.
UtteranceEnded ==
    Alive /\ sess = "running" /\ turn \in {"listening", "preempting", "resumed"}
Working == Alive /\ sess \in {"running", "closing"}

\* lines 36-41: the details are asked for in the order of the list, so an
\* utterance answers for details none of which comes after a missing one
\* that it leaves out.
Position(f) == CHOOSE i \in 1..Len(Keys) : Keys[i] = f
Askable(d, u) ==
    \A f \in DOMAIN u : \A h \in 1..(Position(f) - 1) :
        IsSet(d, Keys[h]) \/ Keys[h] \in DOMAIN u

\* The order state overwritten with the details of the utterance alone.
FilledOnly(d, u) == [f \in Fields |-> IF f \in DOMAIN u THEN Some(u[f]) ELSE Unset]

\* The order state with every detail of the utterance filled in.
Filled(d, u) == [f \in Fields |-> IF f \in DOMAIN u THEN Some(u[f]) ELSE d[f]]

\* line 109: voice activity ended and a transcript is there; the reply is
\* generated ahead of the turn detector's verdict.
PreemptiveGeneration ==
    /\ Alive /\ sess = "running"
    /\ turn \in {"listening", "resumed"}
    /\ turn' = "preempting"
    /\ UNCHANGED <<dlg, draft, file>>
    /\ UNCHANGED lifeVars
    /\ UNCHANGED metricVars
    /\ UNCHANGED toolVars
    /\ UNCHANGED sinceSave
    /\ UNCHANGED otherVars

\* The turn detector finds the utterance not complete: the customer goes on
\* speaking, and the reply generated ahead is cancelled.
TurnNotComplete ==
    /\ Alive /\ sess = "running"
    /\ turn = "preempting"
    /\ turn' = "resumed"
    /\ UNCHANGED <<dlg, draft, file>>
    /\ UNCHANGED lifeVars
    /\ UNCHANGED metricVars
    /\ UNCHANGED toolVars
    /\ UNCHANGED sinceSave
    /\ UNCHANGED otherVars

\* lines 34-45: the customer supplies Required Order Details and the order
\* state is filled with them.  (The turn is confirmed: a reply generated
\* ahead is the one released.)
CustomerSupplies ==
    /\ UtteranceEnded
    /\ \E u \in Utterances :
          /\ Askable(draft, u)
          /\ Filled(draft, u) # draft
          /\ draft' = Filled(draft, u)
    /\ dlg' = "none"
    /\ turn' = "generating"
    /\ UNCHANGED <<file>>
    /\ UNCHANGED lifeVars
    /\ UNCHANGED metricVars
    /\ UNCHANGED toolVars
    /\ UNCHANGED sinceSave
    /\ UNCHANGED otherVars

\* lines 46-48: the customer says yes.  After the read-back summary that
\* confirms the order; after the offer of another drink the order state
\* starts fresh.
CustomerAffirms ==
    /\ UtteranceEnded
    /\ dlg' = IF dlg = "summarized" THEN "affirmed" ELSE "none"
    /\ draft' = IF dlg = "offered" THEN EmptyDraft ELSE draft
    /\ sinceSave' = IF dlg = "offered" THEN FALSE ELSE sinceSave
    /\ turn' = "generating"
    /\ UNCHANGED <<file>>
    /\ UNCHANGED lifeVars
    /\ UNCHANGED metricVars
    /\ UNCHANGED toolVars
    /\ UNCHANGED otherVars

\* The customer says no (to the summary or to the offer).
CustomerDeclines ==
    /\ UtteranceEnded
    /\ dlg \in {"summarized", "offered"}
    /\ dlg' = "none"
    /\ turn' = "generating"
    /\ UNCHANGED <<draft, file>>
    /\ UNCHANGED lifeVars
    /\ UNCHANGED metricVars
    /\ UNCHANGED toolVars
    /\ UNCHANGED sinceSave
    /\ UNCHANGED otherVars

\* lines 44-46: the language model answers in speech: a clarifying
\* question, or, once all five details are known, the read-back summary.
AgentAsks ==
    /\ Generating
    /\ dlg' = "none"
    /\ turn' = "speaking"
    /\ UNCHANGED <<draft, file>>
    /\ UNCHANGED lifeVars
    /\ UNCHANGED metricVars
    /\ UNCHANGED <<tpc, order_data, wpos, confirmedCall, saves>>
    /\ result' = NoResult
    /\ UNCHANGED sinceSave
    /\ UNCHANGED otherVars

AgentSummarizes ==
    /\ Generating
    /\ AllKnown(draft)
    /\ dlg' = "summarized"
    /\ turn' = "speaking"
    /\ UNCHANGED <<draft, file>>
    /\ UNCHANGED lifeVars
    /\ UNCHANGED metricVars
    /\ UNCHANGED <<tpc, order_data, wpos, confirmedCall, saves>>
    /\ result' = NoResult
    /\ UNCHANGED sinceSave
    /\ UNCHANGED otherVars

\* lines 48 and 79: after the tool reported success the language model asks
\* whether the customer wants another drink.
AgentOffers ==
    /\ Generating
    /\ result = Success
    /\ dlg' = "offered"
    /\ turn' = "speaking"
    /\ UNCHANGED <<draft, file>>
    /\ UNCHANGED lifeVars
    /\ UNCHANGED metricVars
    /\ UNCHANGED <<tpc, order_data, wpos, confirmedCall, saves>>
    /\ result' = NoResult
    /\ UNCHANGED sinceSave
    /\ UNCHANGED otherVars

\* The speech has been played out in full.
SpeechDone ==
    /\ Working /\ turn = "speaking"
    /\ turn' = "listening"
    /\ UNCHANGED <<dlg, draft, file>>
    /\ UNCHANGED lifeVars
    /\ UNCHANGED metricVars
    /\ UNCHANGED toolVars
    /\ UNCHANGED sinceSave
    /\ UNCHANGED otherVars

\* A body with an await in it (an awaited write): cancellable anywhere.
CancellableAnywhere(t) == TRUE

\* A cancellation reaches a task only where the task is suspended.  The
\* scheduled tool task has not started its body; the body itself (lines
\* 65-82) has no await.
Cancellable(t) == t \in {"idle", "scheduled", "returned"}

\* Barge-in: the customer speaks while the agent is generating, running a
\* tool or speaking; the in-flight work is cancelled and the new utterance
\* is captured.
BargeIn ==
    /\ job # "exited" /\ sess = "running"
    /\ turn \in {"generating", "tool", "speaking"}
    /\ Cancellable(tpc)
    /\ turn' = "listening"
    /\ DropTool
    /\ dlg' = IF turn = "speaking" THEN "none" ELSE dlg
    /\ UNCHANGED <<draft, file, saves>>
    /\ UNCHANGED lifeVars
    /\ UNCHANGED metricVars
    /\ UNCHANGED sinceSave
    /\ UNCHANGED otherVars

(* ------------------------------------------------------------ save_order *)
\* The language model requests the save_order tool with the order state as
\* arguments, and the tool task is scheduled.  agent.py puts no condition on
\* the request: line 47 is an instruction to the language model.
ToolRequest ==
    /\ Generating
    /\ tpc = "idle"
    /\ saves < MaxSaves
    /\ tpc' = "scheduled"
    /\ turn' = "tool"
    /\ LET a == ToolArgs(draft) IN
          order_data' = OrderData(a.drinkType, a.size, a.milk, a.extras, a.name)
    /\ confirmedCall' = (dlg = "affirmed")
    /\ wpos' = 0
    /\ result' = NoResult
    /\ saves' = saves + 1
    /\ dlg' = "none"
    /\ UNCHANGED <<draft, file>>
    /\ UNCHANGED lifeVars
    /\ UNCHANGED metricVars
    /\ UNCHANGED sinceSave
    /\ UNCHANGED otherVars

\* The file opened with mode "w": its text is dropped.
OpenedTruncating(text) == << >>

\* line 77: open("orders.json", "a") keeps the text of the file and puts
\* every write at its end.
Opened(text) == text

\* line 78, as the operating system sees it: the next ChunkLen tokens of the
\* line are appended.
NextChunk(line, pos) ==
    SubSeq(line, pos + 1, IF pos + ChunkLen < Len(line) THEN pos + ChunkLen ELSE Len(line))

\* The handler logging and re-raising instead of answering.
OnExceptionReraise == [tpc |-> "returned", result |-> Raised]

\* The handler trying the write again instead of answering.
OnExceptionRetry == [tpc |-> "scheduled", result |-> NoResult]

\* lines 80-82: an exception of the try block is logged and answered with
\* the error string; the body is left.
OnException == [tpc |-> "returned", result |-> TechError]

\* lines 65-77: the body starts: order_data is built and the file opened.
\* The open can fail (lines 80-82).
SaveOpen ==
    /\ Working /\ tpc = "scheduled"
    /\ \/ /\ tpc' = "opened"
          /\ file' = Opened(file)
          /\ result' = result
       \/ /\ tpc' = OnException.tpc
          /\ result' = OnException.result
          /\ file' = file
    /\ UNCHANGED <<turn, dlg, draft, order_data, wpos, confirmedCall, saves>>
    /\ UNCHANGED lifeVars
    /\ UNCHANGED metricVars
    /\ UNCHANGED sinceSave
    /\ UNCHANGED otherVars

\* line 78 and the close at the end of the with block: the line reaches the
\* file chunk by chunk.
SaveWrite ==
    /\ job # "exited" /\ tpc = "opened"
    /\ wpos < Len(RecordLine(order_data))
    /\ LET chunk == NextChunk(RecordLine(order_data), wpos) IN
          /\ file' = file \o chunk
          /\ wpos' = wpos + Len(chunk)
    /\ UNCHANGED <<turn, dlg, draft, tpc, order_data, result, confirmedCall, saves>>
    /\ UNCHANGED lifeVars
    /\ UNCHANGED metricVars
    /\ UNCHANGED sinceSave
    /\ UNCHANGED otherVars

\* A write or the close fails (storage unavailable, disk full): lines 80-82.
\* What was written before stays in the file.
SaveWriteFails ==
    /\ job # "exited" /\ tpc = "opened"
    /\ tpc' = OnException.tpc
    /\ result' = OnException.result
    /\ UNCHANGED <<turn, dlg, draft, file, order_data, wpos, confirmedCall, saves>>
    /\ UNCHANGED lifeVars
    /\ UNCHANGED metricVars
    /\ UNCHANGED sinceSave
    /\ UNCHANGED otherVars

\* line 79: the with block was left without an exception.
SaveReturns ==
    /\ job # "exited" /\ tpc = "opened"
    /\ wpos = Len(RecordLine(order_data))
    /\ tpc' = "returned"
    /\ result' = Success
    /\ sinceSave' = (sinceSave \/ confirmedCall)
    /\ UNCHANGED <<turn, dlg, draft, file, order_data, wpos, confirmedCall, saves>>
    /\ UNCHANGED lifeVars
    /\ UNCHANGED metricVars
    /\ UNCHANGED otherVars

\* The returned string goes back to the language model, which generates
\* its next reply from it.
ToolResult ==
    /\ Working /\ tpc = "returned" /\ turn = "tool"
    /\ tpc' = "idle"
    /\ turn' = "generating"
    /\ order_data' = NoOrder
    /\ wpos' = 0
    /\ confirmedCall' = FALSE
    /\ UNCHANGED <<dlg, draft, file, result, saves>>
    /\ UNCHANGED lifeVars
    /\ UNCHANGED metricVars
    /\ UNCHANGED sinceSave
    /\ UNCHANGED otherVars

(* ------------------------------------------------------- a second session *)
\* Every job process runs the same agent.py in the same working directory:
\* the save_order of another session appends to the same orders.json.  This
\* is the order it saves.
OtherOrder == OrderData("Mocha", "Large", "Whole", << >>, "Ana")

\* lines 65-77 in the other process: its body starts and the file is opened.
\* Lines 75-79 take no lock: the two processes write whenever each is
\* scheduled.
OtherSaveOpen ==
    /\ opc = "idle"
    /\ opc' = "opened"
    /\ opos' = 0
    /\ file' = Opened(file)
    /\ UNCHANGED <<turn, dlg, draft, sinceSave>>
    /\ UNCHANGED lifeVars
    /\ UNCHANGED metricVars
    /\ UNCHANGED toolVars

\* line 78 in the other process: its line reaches the file chunk by chunk.
OtherSaveWrite ==
    /\ opc = "opened"
    /\ opos < Len(RecordLine(OtherOrder))
    /\ LET chunk == NextChunk(RecordLine(OtherOrder), opos) IN
          /\ file' = file \o chunk
          /\ opos' = opos + Len(chunk)
    /\ opc' = opc
    /\ UNCHANGED <<turn, dlg, draft, sinceSave>>
    /\ UNCHANGED lifeVars
    /\ UNCHANGED metricVars
    /\ UNCHANGED toolVars

\* line 79 in the other process.
OtherSaveReturns ==
    /\ opc = "opened"
    /\ opos = Len(RecordLine(OtherOrder))
    /\ opc' = "returned"
    /\ UNCHANGED <<opos, file, turn, dlg, draft, sinceSave>>
    /\ UNCHANGED lifeVars
    /\ UNCHANGED metricVars
    /\ UNCHANGED toolVars

(* ----------------------------------------------------------------- specs *)
Next ==
    \/ NewSession
    \/ OnMetricsCollected
    \/ AddShutdownCallback
    \/ SessionStart
    \/ Connect
    \/ MetricsCollected
    \/ JobShutdown
    \/ SessionClosed
    \/ ParticipantDisconnected
    \/ ProcessExit
    \/ PreemptiveGeneration
    \/ TurnNotComplete
    \/ CustomerSupplies
    \/ CustomerAffirms
    \/ CustomerDeclines
    \/ AgentAsks
    \/ AgentSummarizes
    \/ AgentOffers
    \/ SpeechDone
    \/ BargeIn
    \/ ToolRequest
    \/ SaveOpen
    \/ SaveWrite
    \/ SaveWriteFails
    \/ SaveReturns
    \/ ToolResult

Spec == Init /\ [][Next]_vars

\* The body of save_order is straight-line code and runs to its return; the
\* runtime of a job that shuts down lets the session close and exits: while one of these steps is possible one is taken.
SaveBody == SaveWrite \/ SaveWriteFails \/ SaveReturns
Teardown == SaveBody \/ SessionClosed \/ ProcessExit
FairSpec == Spec /\ WF_vars(Teardown)

\* The session together with a second session saving to the same file.
OtherSession == OtherSaveOpen \/ OtherSaveWrite \/ OtherSaveReturns
NextShared == Next \/ OtherSession
SpecShared == Init /\ [][NextShared]_vars

TypeOK ==
    /\ job \in {"running", "shutting_down", "exited"}
    /\ sess \in {"none", "new", "running", "closing", "closed", "failed"}
    /\ turn \in {"idle", "listening", "preempting", "resumed", "generating",
                 "tool", "speaking", "closed"}
    /\ tpc \in {"idle", "scheduled", "opened", "returned"}
    /\ usage \in 0..MaxMetrics /\ emitted \in 0..MaxMetrics
    /\ saves \in 0..MaxSaves
    /\ opc \in {"idle", "opened", "returned"}

(* ---------------------------------------------------------------- claims *)
\* The four string arguments are non-empty (extras may be empty).
ValidOrder(o) == o.drinkType # "" /\ o.size # "" /\ o.milk # "" /\ o.name # ""

\* The text of the log before the running invocation wrote to it.
PreFile == SubSeq(file, 1, Len(file) - wpos)

AtLineStart(text) == Remainder(text, << >>) = << >>

InvocationOver == tpc = "returned"

\* The order state, read as an order.
DraftOrder == [f \in Fields |-> The(draft[f])]

C2_InvalidRequestRejected ==
    (tpc \in {"opened", "returned"} /\ ~ValidOrder(order_data))
        => /\ tpc = "returned"
           /\ result \notin {Success, TechError}
           /\ file = PreFile

\* C3: every invocation of the save action follows, in the immediately
\* preceding turn, the customer's affirmation of a read-back summary of all
\* five fields.
C3_SaveOnlyAfterConfirmation ==
    (tpc \in {"scheduled", "opened", "returned"}) => confirmedCall

\* A step in which the order-store write of the running invocation fails:
\* the open fails, or the body is left without the success string.
OpenFails == tpc = "scheduled" /\ tpc' = "returned"
WriteFails == tpc = "opened" /\ tpc' # "opened" /\ result' # Success
StoreFails == OpenFails \/ WriteFails

\* C4: when the order-store write fails, the save action does not raise: it
\* returns the technical-error string, and the session stays alive, able to
\* take the result and go on with the turn.
C4_WriteFailureReturnsError ==
    [][StoreFails => /\ tpc' = "returned"
                     /\ result' = TechError
                     /\ sess' = sess /\ job' = job /\ turn' = turn
                     /\ sess \in {"running", "closing"}]_vars

\* The write failed part-way, the error string came back, and the session
\* has taken it and is generating its next reply.
C4_Witness ==
    /\ result = TechError /\ tpc = "idle"
    /\ sess = "running" /\ turn = "generating"
    /\ ~AtLineStart(file)

\* C5: a failed write is not retried automatically, and the order draft
\* keeps all its confirmed values until the failure has been relayed, so the
\* same order can be saved by a later save action.
C5_NoRetryDraftKept ==
    [][/\ StoreFails => /\ tpc' = "returned"
                        /\ file' = file /\ saves' = saves
                        /\ draft' = draft
       /\ (result = TechError /\ turn \in {"tool", "generating"}) => draft' = draft
       /\ (result = TechError /\ tpc = "returned" /\ confirmedCall)
             => (AllKnown(draft) /\ order_data = DraftOrder)]_vars

\* A confirmed order whose write failed part-way was confirmed again and
\* saved by a later invocation: the log holds the failed attempt's chunk and
\* then the complete line of the same order.
C5_Witness ==
    /\ InvocationOver /\ result = Success /\ confirmedCall
    /\ AllKnown(draft) /\ order_data = DraftOrder
    /\ PreFile = NextChunk(RecordLine(order_data), 0)

\* C6, as stated: after a successful save (here: of a confirmed order) the
\* draft is reset to fully empty before any field of a subsequent order is
\* accepted: the first change of the draft after the save is the reset.
C6_ResetBeforeNextField ==
    [][(sinceSave /\ draft' # draft) => draft' = EmptyDraft]_vars

\* A step that cancels in-flight work for a new utterance.
CancelStep == turn \in {"generating", "tool", "speaking"} /\ turn' = "listening"

TurnLoopStopped == turn \in {"idle", "closed"} /\ tpc = "idle"

C10_AppendOnly ==
    [][/\ IsPrefix(file, file')
       /\ (tpc = "opened" /\ result' = Success)
             => file' = PreFile \o RecordLine(order_data)]_vars

\* The same order saved twice: two equal records.
C10_Witness ==
    /\ Len(Records(file)) = 2
    /\ Records(file)[1] # Malformed
    /\ Records(file)[1] = Records(file)[2]

\* C11: when two sessions save concurrently to the shared log, every record
\* (every line) in the log is one complete record of exactly one session's
\* order: the lines of different sessions are never interleaved or cut short.
C11_RecordsNeverInterleaved ==
    \A i \in 1..Len(Records(file)) : Records(file)[i] # Malformed

AnswersOffer ==
    /\ dlg = "offered" /\ sinceSave
    /\ turn \in {"listening", "preempting", "resumed"} /\ turn' = "generating"
    /\ draft' \in {draft, EmptyDraft}

\* C13: after a successful save the customer is offered a new order; on the
\* answer yes the draft is reset to empty and the same session goes on
\* taking turns, and on the answer no the session proceeds to shutdown.
C13_YesResetsNoShutsDown ==
    [][AnswersOffer =>
          \/ draft' = EmptyDraft /\ sess' = "running" /\ job' = "running"
          \/ sess' \in {"closing", "closed"}
          \/ job' \in {"shutting_down", "exited"}]_vars

\* A step that unsets a set field of the draft / that keeps every set field.
UnsetsField == \E f \in Fields : IsSet(draft, f) /\ ~IsSet(draft', f)
KeepsFields == \A f \in Fields : IsSet(draft, f) => IsSet(draft', f)

\* The explicit start-fresh reset: the customer says yes to the offer of
\* another drink.
StartFresh ==
    /\ dlg = "offered"
    /\ turn \in {"listening", "preempting", "resumed"} /\ turn' = "generating"
    /\ draft' = EmptyDraft

C15_MetricsCountedOnce ==
    /\ [](usage = emitted)
    /\ [][/\ emitted' # emitted =>
               /\ emitted' = emitted + 1 /\ usage' = usage + 1
               /\ logged' = logged /\ job' = job /\ sess' = sess /\ pc' = pc
          /\ logged' # logged => (logged = << >> /\ logged' = <<emitted>>)
          /\ logged # << >> => logged' = logged]_vars

\* One event came before the summary was logged and one after it.
C15_Witness ==
    /\ logged = <<1>> /\ usage = 2 /\ emitted = 2

\* The number of complete records (lines that read back as an order) of a
\* log text.
RECURSIVE Complete(_)
Complete(recs) ==
    IF recs = << >> THEN 0
    ELSE (IF Head(recs) # Malformed THEN 1 ELSE 0) + Complete(Tail(recs))

\* C16: the number of complete records in the log equals the number of save
\* actions that returned the success string, and a save action that returns
\* the technical-error string has added nothing to the log, neither a
\* complete nor a partial record.  Step by step: the log changes only inside
\* a save action; the one that returns success has added exactly one
\* complete record; the one that returns the error has left the log as it
\* was before it.
C16_RecordsEqualSuccesses ==
    [][/\ (tpc # "opened" /\ tpc' # "opened") => file' = file
       /\ (tpc = "opened" /\ result' = Success)
             => Complete(Records(file')) = Complete(Records(PreFile)) + 1
       /\ (tpc' = "returned" /\ result' = TechError)
             => /\ file' = PreFile
                /\ Complete(Records(file')) = Complete(Records(PreFile))]_vars

\* The session was started (line 127 was reached), whatever came of it.
StartReached == sess \in {"running", "closing", "closed", "failed"}

\* C17: the metrics handler and the shutdown callback are both registered
\* before the session is started: a session that can emit metric events has
\* the handler subscribed (no event is emitted unheard), and the shutdown
\* callback is in place when the start or the connect failed and whenever
\* the job shuts down.
C17_RegisteredBeforeStart ==
    /\ [](/\ (pc = "start" \/ StartReached) => (handler /\ HasCallback("log_usage"))
          /\ pc = "raised" => HasCallback("log_usage")
          /\ job # "running" => HasCallback("log_usage")
          /\ HasCallback("aclose") => callbacks = <<"log_usage", "aclose">>)
    /\ [][emitted' # emitted => (handler /\ usage' # usage)]_vars

\* The connect failed after the session had started; an event of the
\* running session was collected and the callback is registered.
C17_Witness ==
    /\ pc = "raised" /\ sess = "running" /\ job = "running"
    /\ emitted = 1 /\ usage = 1
    /\ callbacks = <<"log_usage", "aclose">>

====
